---- MODULE Spec2Model ----
(***************************************************************************)
(* A model of the search front end of saiisback/search-engine:             *)
(*   SearchInterface  (components/search/search-interface)  draft and      *)
(*                     submitted query, showResults                        *)
(*   SearchResults    (components/search/search-results)   text fetch,     *)
(*                     engine and mode selection, page-content overlay     *)
(*   ImageSearchResults (components/search/image-search.tsx)               *)
(*   AiSummary        (components/search/ai-summary.tsx)   key-rotating    *)
(*                     summarize chain                                     *)
(* Each React component is a record holding its props and its useState     *)
(* cells under the names of the source.  A request in flight is a record   *)
(* in a collection; the response is chosen when it arrives.  A setState    *)
(* call of an async function whose component instance has been unmounted   *)
(* is a no-op, which the flag "live" of a request records.                 *)
(***************************************************************************)
EXTENDS Integers, Sequences, FiniteSets, TLC

VARIABLES
    si,              \* SearchInterface: searchQuery, submittedQuery, showResults
    sr,              \* SearchResults: props and state
    img,             \* ImageSearchResults: props and state
    ai,              \* AiSummary: props and state
    textFetches,     \* text search requests in flight
    imageFetches,    \* image search requests in flight
    contentFetches,  \* page-content requests in flight
    chains,          \* summarize chains, one per slot
    lastAlert,       \* the message of the last window.alert, or Null
    page,            \* SearchInterface of components/search-interface.tsx with
                     \* the SearchResults of components/search-results.tsx
    review,          \* ReviewInterface, CodeBoxWithVisualization and CodeBox
    interp           \* Interpreter, its run of executeCode and console.log

\* The search session of components/search.
searchVars == <<si, sr, img, ai, textFetches, imageFetches, contentFetches, chains, lastAlert>>

\* The components that take no part in the search session.
toolVars == <<page, review, interp>>

vars == <<searchVars, toolVars>>

\* JavaScript null, for the cells of type string | null.
Null == "<null>"

\* JavaScript null, for the cell contentView of type {url, content} | null.
NullView == [url |-> Null, content |-> Null]

-----------------------------------------------------------------------------
(* Bounds of the model *)

\* Summarize chains that may be pending at once (slots of `chains`).
MaxChains == 1

\* Requests of one kind (text, image, content) that may be in flight at once.
MaxInFlight == 2

\* Longest result list the backend returns.
MaxResults == 2

\* Longest text typed into the search box of components/search-interface.tsx.
MaxDraftLen == 2

\* Longest history of executed codes the Interpreter is taken to.
MaxHistory == 3

-----------------------------------------------------------------------------
(* Strings *)

IsSpace(c) == c \in {" ", "\n", "\t"}

RECURSIVE TrimStart(_)
TrimStart(s) ==
    IF Len(s) > 0 /\ IsSpace(SubSeq(s, 1, 1)) THEN TrimStart(SubSeq(s, 2, Len(s))) ELSE s

RECURSIVE TrimEnd(_)
TrimEnd(s) ==
    IF Len(s) > 0 /\ IsSpace(SubSeq(s, Len(s), Len(s)))
    THEN TrimEnd(SubSeq(s, 1, Len(s) - 1)) ELSE s

TrimNothing(s) == s

\* String.prototype.trim
Trim(s) == TrimEnd(TrimStart(s))

\* String.prototype.includes (case-sensitive substring test)
Includes(s, sub) ==
    \E i \in 1..(Len(s) - Len(sub) + 1) : SubSeq(s, i, i + Len(sub) - 1) = sub

\* Positions j >= from at which a closing ** of /\*\*(.*?)\*\*/ can stand:
\* "." matches no line break.
BoldClosers(s, from) ==
    { j \in from..(Len(s) - 1) :
        /\ SubSeq(s, j, j + 1) = "**"
        /\ ~Includes(SubSeq(s, from, j - 1), "\n") }

Least(S) == CHOOSE j \in S : \A k \in S : j <= k

\* text.replace(/\*\*(.*?)\*\*/g, "<strong>$1</strong>")
RECURSIVE ReplaceBold(_)
ReplaceBold(s) ==
    IF Len(s) < 4 THEN s
    ELSE IF SubSeq(s, 1, 2) = "**" /\ BoldClosers(s, 3) # {}
         THEN LET j == Least(BoldClosers(s, 3))
              IN  "<strong>" \o SubSeq(s, 3, j - 1) \o "</strong>"
                      \o ReplaceBold(SubSeq(s, j + 2, Len(s)))
         ELSE SubSeq(s, 1, 1) \o ReplaceBold(SubSeq(s, 2, Len(s)))

\* text.replace(/\n/g, "<br/>")
RECURSIVE ReplaceLineBreaks(_)
ReplaceLineBreaks(s) ==
    IF Len(s) = 0 THEN s
    ELSE (IF SubSeq(s, 1, 1) = "\n" THEN "<br/>" ELSE SubSeq(s, 1, 1))
             \o ReplaceLineBreaks(SubSeq(s, 2, Len(s)))

renderMarkdown(text) == ReplaceLineBreaks(ReplaceBold(text))

-----------------------------------------------------------------------------
(* Inputs *)

\* What the user may have typed into the search box.
Drafts == {"", " ", "a", " b "}

\* The queries a submit can produce.
Queries == { Trim(d) : d \in Drafts } \ {""}

Engines == {"google", "bing"}

ViewModes == {"text", "images"}

-----------------------------------------------------------------------------
(* AiSummary *)

API_KEYS == <<"gsk_W8v7", "gsk_K5S6", "gsk_zCUH", "gsk_XIhv", "gsk_uGJE", "gsk_6sxk", "gsk_3GLQ">>

ExhaustedMessage == "All API keys exhausted. Please try again later."

\* The state of a component instance that is not mounted is the state a
\* mount starts from.
AiUnmounted ==
    [mounted |-> FALSE, query |-> "", summary |-> "", loading |-> FALSE,
     error |-> Null, currentApiKeyIndex |-> 0]

\* A slot of `chains`.  phase: "idle" (no chain), "request" (awaiting the
\* completion API), "timer" (awaiting the 800 ms retry timer), "done".
\* retry is the argument of the running fetchSummary call, keys the keys of
\* the requests made so far, message the message of the last caught error,
\* error the value the chain gave to setError when it ended.
IdleChain ==
    [phase |-> "idle", query |-> "", retry |-> 0, keys |-> <<>>, live |-> FALSE,
     message |-> Null, error |-> Null, summary |-> ""]

\* The slots are the domain of `chains`, fixed by the initial state.
Slots == DOMAIN chains

FreeSlots == { c \in Slots : chains[c].phase \in {"idle", "done"} }

ApiKeyFixed(retry) == API_KEYS[1]

\* const apiKey = API_KEYS[retry % API_KEYS.length]
ApiKey(retry) == API_KEYS[(retry % Len(API_KEYS)) + 1]

\* The state writes at the start of fetchSummary.
FetchSummaryStart(a) == [a EXCEPT !.loading = TRUE, !.summary = "", !.error = Null]

AiSummaryEffectUnguarded(a, cs) ==
    LET c == Least({ k \in DOMAIN cs : cs[k].phase \in {"idle", "done"} })
    IN  << FetchSummaryStart(a),
           [cs EXCEPT ![c] = [phase |-> "request", query |-> a.query, retry |-> 0,
                              keys |-> <<ApiKey(0)>>, live |-> TRUE,
                              message |-> Null, error |-> Null, summary |-> ""]] >>

\* The useEffect of AiSummary for an instance `a` whose query has just been
\* set: returns the pair <<AiSummary state, chains>>.
AiSummaryEffect(a, cs) ==
    IF a.query = "" THEN <<a, cs>>
    ELSE LET c == Least({ k \in DOMAIN cs : cs[k].phase \in {"idle", "done"} })
         IN  << FetchSummaryStart(a),
                [cs EXCEPT ![c] = [phase |-> "request", query |-> a.query, retry |-> 0,
                                   keys |-> <<ApiKey(0)>>, live |-> TRUE,
                                   message |-> Null, error |-> Null, summary |-> ""]] >>

\* Chains of an instance that is unmounted keep running, but their setState
\* calls no longer reach a mounted instance.
Orphaned(cs) == [c \in DOMAIN cs |-> IF cs[c].phase = "idle" THEN cs[c]
                                     ELSE [cs[c] EXCEPT !.live = FALSE]]

\* What the completion API may answer to a request for query q.
\*   reject: fetch() rejects;  error: a non-2xx status whose body carries
\*   error.message = text ("" when absent);  ok: a 2xx whose first choice has
\*   content = text ("" when absent).
CompletionTexts(q) == { "**" \o q \o "**\nx ", " " }

FailureTexts ==
    {"rate limit exceeded", "authentication failed", "invalid api key",
     "Rate limit reached", ""}

SummaryResponses(q) ==
    {[kind |-> "reject", text |-> "Failed to fetch"]}
        \cup { [kind |-> "error", text |-> t] : t \in FailureTexts }
        \cup { [kind |-> "ok", text |-> t] : t \in CompletionTexts(q) \cup {""} }

\* The message of the Error the try block throws, or Null when it completes.
ThrownMessage(resp) ==
    CASE resp.kind = "reject" -> resp.text
      [] resp.kind = "error" ->
            IF resp.text # "" THEN resp.text ELSE "AI summary generation failed"
      [] resp.kind = "ok" ->
            IF resp.text = "" THEN "No summary returned" ELSE Null

RetryableAuthOnly(message) ==
    Includes(message, "rate limit") \/ Includes(message, "authentication")

\* The condition of the catch block on err.message.
Retryable(message) ==
    \/ Includes(message, "rate limit")
    \/ Includes(message, "authentication")
    \/ Includes(message, "invalid")

HasNextKeyOffByOne(retry) == retry < Len(API_KEYS)

\* if (retry + 1 < API_KEYS.length)
HasNextKey(retry) == retry + 1 < Len(API_KEYS)

\* if (!query) return null: the panel is rendered for a non-empty query only.
AiSummaryRenders == ai.mounted /\ ai.query # ""

\* The values the prop query of AiSummary can take at mount.
SummaryProps == Queries \cup {""}

\* The parent renders AiSummary for the first time with query q.
AiSummaryMount(q) ==
    /\ ~ai.mounted
    /\ FreeSlots # {}
    /\ LET r == AiSummaryEffect([AiUnmounted EXCEPT !.mounted = TRUE, !.query = q], chains)
       IN  ai' = r[1] /\ chains' = r[2]
    /\ UNCHANGED <<toolVars, si, sr, img, textFetches, imageFetches, contentFetches, lastAlert>>

\* The parent re-renders AiSummary with another query.
AiSummaryQueryChange(q) ==
    /\ ai.mounted
    /\ q # ai.query
    /\ FreeSlots # {}
    /\ LET r == AiSummaryEffect([ai EXCEPT !.query = q], chains)
       IN  ai' = r[1] /\ chains' = r[2]
    /\ UNCHANGED <<toolVars, si, sr, img, textFetches, imageFetches, contentFetches, lastAlert>>

\* The parent stops rendering AiSummary (viewMode = "images").
AiSummaryUnmount ==
    /\ ai.mounted
    /\ ai' = AiUnmounted
    /\ chains' = Orphaned(chains)
    /\ UNCHANGED <<toolVars, si, sr, img, textFetches, imageFetches, contentFetches, lastAlert>>

\* The request of chain c is answered: the rest of fetchSummary after the
\* awaits (try, catch, finally), with onSummaryComplete of SearchResults.
SummarySettles(c, resp) ==
    /\ chains[c].phase = "request"
    /\ LET ch == chains[c]
           m == ThrownMessage(resp)
       IN  IF m = Null
           THEN /\ chains' = [chains EXCEPT ![c] = [ch EXCEPT !.phase = "done",
                                  !.message = Null,
                                  !.summary = renderMarkdown(Trim(resp.text))]]
                /\ ai' = IF ch.live
                         THEN [ai EXCEPT !.summary = renderMarkdown(Trim(resp.text)),
                                         !.loading = FALSE]
                         ELSE ai
                /\ sr' = [sr EXCEPT !.contentView = NullView]
           ELSE /\ sr' = sr
                /\ IF Retryable(m)
                   THEN IF HasNextKey(ch.retry)
                        THEN /\ chains' = [chains EXCEPT ![c] =
                                     [ch EXCEPT !.phase = "timer", !.message = m]]
                             /\ ai' = IF ch.live
                                      THEN [ai EXCEPT !.currentApiKeyIndex =
                                                (ch.retry + 1) % Len(API_KEYS),
                                              !.loading = FALSE]
                                      ELSE ai
                        ELSE /\ chains' = [chains EXCEPT ![c] =
                                     [ch EXCEPT !.phase = "done", !.message = m,
                                                !.error = ExhaustedMessage]]
                             /\ ai' = IF ch.live
                                      THEN [ai EXCEPT !.error = ExhaustedMessage,
                                                      !.loading = FALSE]
                                      ELSE ai
                   ELSE LET e == IF m # "" THEN m ELSE "Failed to generate AI summary"
                        IN  /\ chains' = [chains EXCEPT ![c] =
                                   [ch EXCEPT !.phase = "done", !.message = m, !.error = e]]
                            /\ ai' = IF ch.live
                                     THEN [ai EXCEPT !.error = e, !.loading = FALSE]
                                     ELSE ai
    /\ UNCHANGED <<toolVars, si, img, textFetches, imageFetches, contentFetches, lastAlert>>

\* setTimeout(() => fetchSummary(retry + 1), 800) fires.
RetryTimerFires(c) ==
    /\ chains[c].phase = "timer"
    /\ chains' = [chains EXCEPT ![c] =
           [@ EXCEPT !.phase = "request", !.retry = @ + 1, !.message = Null,
                     !.keys = Append(@, ApiKey(chains[c].retry + 1))]]
    /\ ai' = IF chains[c].live THEN FetchSummaryStart(ai) ELSE ai
    /\ UNCHANGED <<toolVars, si, sr, img, textFetches, imageFetches, contentFetches, lastAlert>>

-----------------------------------------------------------------------------
(* The components outside the search session, as constructed *)

\* The SearchResults of components/search-results.tsx while it is not
\* rendered.
MockUnmounted == [mounted |-> FALSE, query |-> "", feature |-> "", results |-> <<>>]

PageInit ==
    [searchQuery |-> "", activeFeature |-> "search", showResults |-> FALSE,
     view |-> MockUnmounted]

\* ReviewInterface with the CodeBoxWithVisualization it renders (wrapper) and
\* the CodeBox inside it (box): each keeps a code and a language of its own.
\* box.onCodeChange tells whether the prop onCodeChange was passed.
ReviewInit ==
    [activeFeature |-> "code-search", code |-> "", language |-> "javascript",
     showVisualization |-> FALSE,
     wrapper |-> [mounted |-> TRUE, code |-> "", selectedLanguage |-> "javascript"],
     box |-> [mounted |-> TRUE, initialCode |-> "", onCodeChange |-> FALSE,
              code |-> "", selectedLanguage |-> "javascript"]]

\* Interpreter (initialCode = "", language = "javascript"), the run of
\* executeCode that is suspended at its await (phase "awaiting", with the
\* code and the console.log it captured), and the global console.log:
\* "original", or "capture" while it is replaced.
InterpInit ==
    [code |-> "", selectedLanguage |-> "javascript", output |-> "",
     isExecuting |-> FALSE, history |-> <<>>, historyIndex |-> -1,
     phase |-> "idle", runCode |-> "", originalConsoleLog |-> "original",
     consoleLog |-> "original"]

ToolsInit == page = PageInit /\ review = ReviewInit /\ interp = InterpInit

-----------------------------------------------------------------------------
(* Initial state: nothing submitted, no component below SearchInterface
   mounted. *)

SrUnmounted ==
    [query |-> "", results |-> <<>>, loading |-> FALSE, error |-> Null,
     executionTime |-> 0, totalResults |-> 0, selectedEngine |-> "google",
     contentView |-> NullView, loadingContent |-> FALSE,
     viewMode |-> "text"]

ImgUnmounted ==
    [mounted |-> FALSE, query |-> "", searchEngine |-> "google", results |-> <<>>,
     loading |-> FALSE, error |-> Null, executionTime |-> 0, totalResults |-> 0,
     selectedEngine |-> "google"]

Init ==
    /\ si = [searchQuery |-> "", submittedQuery |-> "", showResults |-> FALSE]
    /\ sr = SrUnmounted
    /\ img = ImgUnmounted
    /\ ai = AiUnmounted
    /\ textFetches = <<>>
    /\ imageFetches = <<>>
    /\ contentFetches = <<>>
    /\ chains = [c \in 1..MaxChains |-> IdleChain]
    /\ lastAlert = Null
    /\ ToolsInit

-----------------------------------------------------------------------------
(* The search backends *)

\* The result list the text backend returns for (q, e) when it has n hits.
TextResults(q, e, n) ==
    [i \in 1..n |-> [position |-> i, source |-> e,
                     url |-> "https://x.test/" \o q \o "/" \o e \o "/" \o ToString(i)]]

\* The result list the image backend returns for (q, e) when it has n hits.
ImageResults(q, e, n) ==
    [i \in 1..n |-> [position |-> i, source_domain |-> e,
                     url |-> "https://img.test/" \o q \o "/" \o e \o "/" \o ToString(i)]]

NoData ==
    [hasResults |-> FALSE, results |-> <<>>, total_results |-> 0,
     execution_time |-> 0, error |-> Null]

\* Decoded payloads of a 2xx answer: with a results array (of 0 or
\* MaxResults hits, any reported total and time, with or without an error
\* string), or without one.
Payloads(hits) ==
    { [hasResults |-> TRUE, results |-> r, total_results |-> t,
       execution_time |-> x, error |-> e] :
          r \in hits, t \in {0, 57}, x \in {0, 3}, e \in {Null, "engine unavailable"} }
        \cup {NoData}

\* What a search backend may answer: fetch() rejects, a non-2xx status,
\* a body that is no JSON, or a decoded payload.
SearchResponses(hits) ==
    { [kind |-> "reject", status |-> 0, message |-> "Failed to fetch", data |-> NoData],
      [kind |-> "status", status |-> 500, message |-> "", data |-> NoData],
      [kind |-> "badjson", status |-> 200,
       message |-> "Unexpected token < in JSON at position 0", data |-> NoData] }
        \cup { [kind |-> "json", status |-> 200, message |-> "", data |-> d] :
                  d \in Payloads(hits) }

TextResponses(q, e) == SearchResponses({ TextResults(q, e, n) : n \in {0, MaxResults} })

ImageResponses(q, e) == SearchResponses({ ImageResults(q, e, n) : n \in {0, MaxResults} })

FetchThrownMessageNoFormatCheck(resp) ==
    CASE resp.kind \in {"reject", "badjson"} -> resp.message
      [] resp.kind = "status" -> "HTTP error! status: " \o ToString(resp.status)
      [] resp.kind = "json" -> Null

\* The message of the Error thrown in the try block of fetchResults, or Null.
FetchThrownMessage(resp) ==
    CASE resp.kind \in {"reject", "badjson"} -> resp.message
      [] resp.kind = "status" -> "HTTP error! status: " \o ToString(resp.status)
      [] resp.kind = "json" ->
            IF resp.data.hasResults THEN Null ELSE "Unexpected data format from API"

RemoveAt(seq, i) == SubSeq(seq, 1, i - 1) \o SubSeq(seq, i + 1, Len(seq))

-----------------------------------------------------------------------------
(* SearchResults: the text fetch *)

\* The useEffect of SearchResults on [query, selectedEngine, numResults,
\* viewMode], for the state s after the change: <<state, textFetches>>.
SearchResultsEffect(s, fs) ==
    IF s.query = "" \/ s.viewMode # "text" THEN <<s, fs>>
    ELSE << [s EXCEPT !.loading = TRUE, !.error = Null],
            Append(fs, [query |-> s.query, engine |-> s.selectedEngine]) >>

FetchResultsSettledNoFinally(s, resp) ==
    LET m == FetchThrownMessage(resp)
        d == resp.data
    IN  IF m = Null
        THEN [s EXCEPT !.results = d.results,
                       !.totalResults = IF d.total_results # 0 THEN d.total_results
                                        ELSE Len(d.results),
                       !.executionTime = IF d.execution_time # 0 THEN d.execution_time
                                         ELSE 0,
                       !.error = IF d.error \notin {Null, ""} THEN d.error ELSE @,
                       !.loading = FALSE]
        ELSE [s EXCEPT !.error = IF m # "" THEN m ELSE "Something went wrong.",
                       !.results = <<>>]

\* fetchResults of SearchResults after its awaits: try, catch, finally.
FetchResultsSettled(s, resp) ==
    LET m == FetchThrownMessage(resp)
        d == resp.data
    IN  IF m = Null
        THEN [s EXCEPT !.results = d.results,
                       !.totalResults = IF d.total_results # 0 THEN d.total_results
                                        ELSE Len(d.results),
                       !.executionTime = IF d.execution_time # 0 THEN d.execution_time
                                         ELSE 0,
                       !.error = IF d.error \notin {Null, ""} THEN d.error ELSE @,
                       !.loading = FALSE]
        ELSE [s EXCEPT !.error = IF m # "" THEN m ELSE "Something went wrong.",
                       !.results = <<>>,
                       !.loading = FALSE]

-----------------------------------------------------------------------------
(* SearchResults: the page-content overlay *)

\* What the content backend extracts from a page.
PageText(url) == "text of " \o url

\* What the content backend may answer for url: fetch() rejects, a non-2xx
\* status, a body that is no JSON, or a payload {content: {content}, error}
\* with or without its content object and its error string.
ContentResponses(url) ==
    { [kind |-> "reject", status |-> 0, message |-> "Failed to fetch",
       hasContent |-> FALSE, content |-> "", error |-> Null],
      [kind |-> "status", status |-> 500, message |-> "",
       hasContent |-> FALSE, content |-> "", error |-> Null],
      [kind |-> "badjson", status |-> 200,
       message |-> "Unexpected token < in JSON at position 0",
       hasContent |-> FALSE, content |-> "", error |-> Null] }
        \cup { [kind |-> "json", status |-> 200, message |-> "",
                hasContent |-> TRUE, content |-> c, error |-> Null] :
                  c \in {PageText(url), ""} }
        \cup { [kind |-> "json", status |-> 200, message |-> "",
                hasContent |-> FALSE, content |-> "", error |-> e] :
                  e \in {Null, "could not extract"} }

\* The message of the Error thrown in the try block of fetchPageContent, or
\* Null.
ContentThrownMessage(resp) ==
    CASE resp.kind \in {"reject", "badjson"} -> resp.message
      [] resp.kind = "status" -> "HTTP error! status: " \o ToString(resp.status)
      [] resp.kind = "json" ->
            IF ~resp.hasContent /\ resp.error \notin {Null, ""} THEN resp.error ELSE Null

\* The URLs of the result cards on screen.
VisibleUrls ==
    IF si.showResults /\ sr.viewMode = "text"
    THEN { sr.results[i].url : i \in DOMAIN sr.results } ELSE {}

\* An earlier call is superseded when a call for another URL follows it:
\* supersededBy is the URL of the latest such call, or Null.
Superseding(fs, url) ==
    [i \in DOMAIN fs |-> IF fs[i].url # url THEN [fs[i] EXCEPT !.supersededBy = url]
                         ELSE fs[i]]

\* The "Scraped Content" button of a result card: fetchPageContent(url) up
\* to its first await.
fetchPageContent(url) ==
    /\ url \in VisibleUrls
    /\ Len(contentFetches) < MaxInFlight
    /\ sr' = [sr EXCEPT !.loadingContent = TRUE]
    /\ contentFetches' = Append(Superseding(contentFetches, url),
                                [url |-> url, supersededBy |-> Null])
    /\ UNCHANGED <<toolVars, si, img, ai, textFetches, imageFetches, chains, lastAlert>>

\* The i-th content request in flight is answered: fetchPageContent after
\* its awaits (try, catch, finally).
ContentFetchSettles(i, resp) ==
    /\ i \in DOMAIN contentFetches
    /\ LET m == ContentThrownMessage(resp)
           url == contentFetches[i].url
       IN  /\ sr' = [sr EXCEPT
                        !.contentView =
                            IF m = Null /\ resp.hasContent
                            THEN [url |-> url,
                                  content |-> IF resp.content # "" THEN resp.content
                                              ELSE "No content extracted"]
                            ELSE @,
                        !.loadingContent = FALSE]
           /\ lastAlert' = IF m # Null THEN "Failed to fetch page content: " \o m
                           ELSE lastAlert
    /\ contentFetches' = RemoveAt(contentFetches, i)
    /\ UNCHANGED <<toolVars, si, img, ai, textFetches, imageFetches, chains>>

\* The close button of the overlay.
closeContentView ==
    /\ sr.contentView # NullView
    /\ sr' = [sr EXCEPT !.contentView = NullView]
    /\ UNCHANGED <<toolVars, si, img, ai, textFetches, imageFetches, contentFetches, chains, lastAlert>>

-----------------------------------------------------------------------------
(* ImageSearchResults *)

\* The useEffect of ImageSearchResults on [query, selectedEngine,
\* numResults]: <<state, imageFetches>>.
ImageSearchEffect(m, fs) ==
    IF m.query = "" THEN <<m, fs>>
    ELSE << [m EXCEPT !.loading = TRUE, !.error = Null],
            Append(fs, [query |-> m.query, engine |-> m.selectedEngine, live |-> TRUE]) >>

ImageSearchMountedDefaultEngine(q, engine) ==
    [ImgUnmounted EXCEPT !.mounted = TRUE, !.query = q, !.searchEngine = engine]

\* useState(searchEngine): the prop seeds selectedEngine at mount only.
ImageSearchMounted(q, engine) ==
    [ImgUnmounted EXCEPT !.mounted = TRUE, !.query = q, !.searchEngine = engine,
                         !.selectedEngine = engine]

\* fetchResults of ImageSearchResults after its awaits.
ImageFetchResultsSettled(m, resp) ==
    LET t == FetchThrownMessage(resp)
        d == resp.data
    IN  IF t = Null
        THEN [m EXCEPT !.results = d.results,
                       !.totalResults = IF d.total_results # 0 THEN d.total_results
                                        ELSE Len(d.results),
                       !.executionTime = IF d.execution_time # 0 THEN d.execution_time
                                         ELSE 0,
                       !.error = IF d.error \notin {Null, ""} THEN d.error ELSE @,
                       !.loading = FALSE]
        ELSE [m EXCEPT !.error = IF t # "" THEN t ELSE "Something went wrong.",
                       !.results = <<>>,
                       !.loading = FALSE]

DetachedStillLive(fs) == fs

\* Requests of an unmounted ImageSearchResults stay in flight; their
\* setState calls reach no mounted instance.
Detached(fs) == [i \in DOMAIN fs |-> [fs[i] EXCEPT !.live = FALSE]]

-----------------------------------------------------------------------------
(* User actions of the search session *)

\* SearchBar onChange: setSearchQuery(e.target.value)
SetSearchQuery(text) ==
    /\ text # si.searchQuery
    /\ si' = [si EXCEPT !.searchQuery = text]
    /\ UNCHANGED <<toolVars, sr, img, ai, textFetches, imageFetches, contentFetches, chains, lastAlert>>

\* The props and effects below SearchInterface after submittedQuery became q.
QuerySubmitted(q) ==
    LET t == SearchResultsEffect([sr EXCEPT !.query = q], textFetches)
        m == ImageSearchEffect([img EXCEPT !.query = q], imageFetches)
    IN  /\ sr' = t[1]
        /\ textFetches' = t[2]
        /\ Len(t[2]) <= MaxInFlight
        /\ IF img.mounted
           THEN img' = m[1] /\ imageFetches' = m[2] /\ Len(m[2]) <= MaxInFlight
           ELSE UNCHANGED <<toolVars, img, imageFetches>>

\* SearchBar onSubmit: handleSearch
handleSearch ==
    LET q == Trim(si.searchQuery)
    IN  IF q = "" THEN UNCHANGED vars
        ELSE /\ si' = [si EXCEPT !.submittedQuery = q, !.showResults = TRUE]
             /\ IF q # si.submittedQuery
                THEN QuerySubmitted(q)
                ELSE UNCHANGED <<toolVars, sr, img, textFetches, imageFetches>>
             /\ UNCHANGED <<toolVars, ai, contentFetches, chains, lastAlert>>

\* The Text / Images buttons of SearchResults.
toggleViewMode(mode) ==
    /\ si.showResults
    /\ IF mode = sr.viewMode THEN UNCHANGED <<toolVars, sr, img, textFetches, imageFetches>>
       ELSE LET t == SearchResultsEffect([sr EXCEPT !.viewMode = mode], textFetches)
                m == ImageSearchEffect(ImageSearchMounted(sr.query, sr.selectedEngine),
                                       Detached(imageFetches))
            IN  /\ sr' = t[1]
                /\ textFetches' = t[2]
                /\ Len(t[2]) <= MaxInFlight
                /\ IF mode = "images"
                   THEN img' = m[1] /\ imageFetches' = m[2] /\ Len(m[2]) <= MaxInFlight
                   ELSE img' = ImgUnmounted /\ imageFetches' = Detached(imageFetches)
    /\ UNCHANGED <<toolVars, si, ai, contentFetches, chains, lastAlert>>

\* The Google / Bing buttons of the options bar of SearchResults.
changeSearchEngine(engine) ==
    /\ si.showResults
    /\ IF engine = sr.selectedEngine THEN UNCHANGED <<toolVars, sr, img, textFetches>>
       ELSE LET t == SearchResultsEffect([sr EXCEPT !.selectedEngine = engine], textFetches)
            IN  /\ sr' = t[1]
                /\ textFetches' = t[2]
                /\ Len(t[2]) <= MaxInFlight
                /\ img' = IF img.mounted THEN [img EXCEPT !.searchEngine = engine] ELSE img
    /\ UNCHANGED <<toolVars, si, ai, imageFetches, contentFetches, chains, lastAlert>>

\* The Google / Bing buttons of ImageSearchResults.
imageChangeSearchEngine(engine) ==
    /\ img.mounted
    /\ IF engine = img.selectedEngine THEN UNCHANGED <<toolVars, img, imageFetches>>
       ELSE LET m == ImageSearchEffect([img EXCEPT !.selectedEngine = engine], imageFetches)
            IN  img' = m[1] /\ imageFetches' = m[2] /\ Len(m[2]) <= MaxInFlight
    /\ UNCHANGED <<toolVars, si, sr, ai, textFetches, contentFetches, chains, lastAlert>>

-----------------------------------------------------------------------------
(* Network events of the search session *)

\* The i-th text request in flight is answered.
TextFetchSettles(i, resp) ==
    /\ i \in DOMAIN textFetches
    /\ sr' = FetchResultsSettled(sr, resp)
    /\ textFetches' = RemoveAt(textFetches, i)
    /\ UNCHANGED <<toolVars, si, img, ai, imageFetches, contentFetches, chains, lastAlert>>

\* The i-th image request in flight is answered.
ImageFetchSettles(i, resp) ==
    /\ i \in DOMAIN imageFetches
    /\ img' = IF imageFetches[i].live THEN ImageFetchResultsSettled(img, resp) ELSE img
    /\ imageFetches' = RemoveAt(imageFetches, i)
    /\ UNCHANGED <<toolVars, si, sr, ai, textFetches, contentFetches, chains, lastAlert>>

-----------------------------------------------------------------------------
(* Specifications *)

\* The answers of a backend that is either down (status 500) or answers
\* with its hits and its own count and time.
PlainResponses(hits) ==
    { resp \in SearchResponses(hits) :
        \/ resp.kind = "status"
        \/ /\ resp.kind = "json"
           /\ resp.data.hasResults
           /\ resp.data.total_results # 0
           /\ resp.data.execution_time # 0
           /\ resp.data.error = Null }

\* The search session: SearchInterface, SearchResults and
\* ImageSearchResults, with backends that answer plainly.  AiSummary takes
\* part through its props only; its own state is the subject of SpecSummary.
Next ==
    \/ \E text \in Drafts : SetSearchQuery(text)
    \/ handleSearch
    \/ \E mode \in ViewModes : toggleViewMode(mode)
    \/ \E engine \in Engines : changeSearchEngine(engine)
    \/ \E engine \in Engines : imageChangeSearchEngine(engine)
    \/ \E i \in DOMAIN textFetches :
          \E resp \in PlainResponses({ TextResults(textFetches[i].query,
                                           textFetches[i].engine, n) : n \in {0, MaxResults} }) :
             TextFetchSettles(i, resp)
    \/ \E i \in DOMAIN imageFetches :
          \E resp \in PlainResponses({ ImageResults(imageFetches[i].query,
                                           imageFetches[i].engine, n) : n \in {0, MaxResults} }) :
             ImageFetchSettles(i, resp)

Spec == Init /\ [][Next]_vars

\* SearchResults in text mode, with every answer of the text backend.
NextText ==
    \/ \E text \in Drafts : SetSearchQuery(text)
    \/ handleSearch
    \/ \E engine \in Engines : changeSearchEngine(engine)
    \/ \E i \in DOMAIN textFetches :
          \E resp \in TextResponses(textFetches[i].query, textFetches[i].engine) :
             TextFetchSettles(i, resp)

SpecText == Init /\ [][NextText]_vars

\* The two result views with every answer of their backends, from the
\* state in which "a" has just been submitted: the user switches between
\* the modes while the answers arrive.
InitFetch ==
    /\ si = [searchQuery |-> "a", submittedQuery |-> "a", showResults |-> TRUE]
    /\ sr = SearchResultsEffect([SrUnmounted EXCEPT !.query = "a"], <<>>)[1]
    /\ img = ImgUnmounted
    /\ ai = AiUnmounted
    /\ textFetches = SearchResultsEffect([SrUnmounted EXCEPT !.query = "a"], <<>>)[2]
    /\ imageFetches = <<>>
    /\ contentFetches = <<>>
    /\ chains = [c \in 1..MaxChains |-> IdleChain]
    /\ lastAlert = Null
    /\ ToolsInit

NextFetch ==
    \/ \E mode \in ViewModes : toggleViewMode(mode)
    \/ \E i \in DOMAIN textFetches :
          \E resp \in TextResponses(textFetches[i].query, textFetches[i].engine) :
             TextFetchSettles(i, resp)
    \/ \E i \in DOMAIN imageFetches :
          \E resp \in ImageResponses(imageFetches[i].query, imageFetches[i].engine) :
             ImageFetchSettles(i, resp)

SpecFetch == InitFetch /\ [][NextFetch]_vars

\* The guards against an empty query: the search box with its submit, and
\* AiSummary mounted with any value of its prop, the empty string included.
NextGuard ==
    \/ \E text \in Drafts : SetSearchQuery(text)
    \/ handleSearch
    \/ \E i \in DOMAIN textFetches :
          \E resp \in PlainResponses({ TextResults(textFetches[i].query,
                                           textFetches[i].engine, n) : n \in {0, MaxResults} }) :
             TextFetchSettles(i, resp)
    \/ \E q \in SummaryProps : AiSummaryMount(q)
    \/ AiSummaryUnmount
    \/ \E c \in Slots : \E resp \in SummaryResponses(chains[c].query) : SummarySettles(c, resp)
    \/ \E c \in Slots : RetryTimerFires(c)

SpecGuard == Init /\ [][NextGuard]_vars

\* AiSummary on its own: the parent mounts it, changes its query and
\* unmounts it; the completion API answers; retry timers fire.
NextSummary ==
    \/ \E q \in Queries : AiSummaryMount(q)
    \/ \E q \in Queries : AiSummaryQueryChange(q)
    \/ AiSummaryUnmount
    \/ \E c \in Slots : \E resp \in SummaryResponses(chains[c].query) : SummarySettles(c, resp)
    \/ \E c \in Slots : RetryTimerFires(c)

SpecSummary == Init /\ [][NextSummary]_vars

\* The same with one more slot, so that a chain can be superseded while it
\* is pending.
InitRace ==
    /\ si = [searchQuery |-> "", submittedQuery |-> "", showResults |-> FALSE]
    /\ sr = SrUnmounted
    /\ img = ImgUnmounted
    /\ ai = AiUnmounted
    /\ textFetches = <<>>
    /\ imageFetches = <<>>
    /\ contentFetches = <<>>
    /\ chains = [c \in 1..(MaxChains + 1) |-> IdleChain]
    /\ lastAlert = Null
    /\ ToolsInit

SpecSummaryRace == InitRace /\ [][NextSummary]_vars

\* The page-content overlay on its own, from the state in which "a" has
\* been submitted and the text backend has answered with MaxResults hits.
InitContent ==
    /\ si = [searchQuery |-> "a", submittedQuery |-> "a", showResults |-> TRUE]
    /\ sr = [SrUnmounted EXCEPT !.query = "a",
                                !.results = TextResults("a", "google", MaxResults),
                                !.totalResults = 57, !.executionTime = 3]
    /\ img = ImgUnmounted
    /\ ai = AiUnmounted
    /\ textFetches = <<>>
    /\ imageFetches = <<>>
    /\ contentFetches = <<>>
    /\ chains = [c \in 1..MaxChains |-> IdleChain]
    /\ lastAlert = Null
    /\ ToolsInit

NextContent ==
    \/ \E url \in VisibleUrls : fetchPageContent(url)
    \/ \E i \in DOMAIN contentFetches :
          \E resp \in ContentResponses(contentFetches[i].url) : ContentFetchSettles(i, resp)
    \/ closeContentView

SpecContent == InitContent /\ [][NextContent]_vars

\* The text view after "a" has been submitted: the text fetch and the
\* summarize chain of the newly mounted AiSummary are both pending; the
\* user opens and closes page contents while the answers arrive.
InitOverlay ==
    /\ si = [searchQuery |-> "a", submittedQuery |-> "a", showResults |-> TRUE]
    /\ sr = SearchResultsEffect([SrUnmounted EXCEPT !.query = "a"], <<>>)[1]
    /\ img = ImgUnmounted
    /\ ai = AiSummaryEffect([AiUnmounted EXCEPT !.mounted = TRUE, !.query = "a"],
                            [c \in 1..MaxChains |-> IdleChain])[1]
    /\ textFetches = SearchResultsEffect([SrUnmounted EXCEPT !.query = "a"], <<>>)[2]
    /\ imageFetches = <<>>
    /\ contentFetches = <<>>
    /\ chains = AiSummaryEffect([AiUnmounted EXCEPT !.mounted = TRUE, !.query = "a"],
                                [c \in 1..MaxChains |-> IdleChain])[2]
    /\ lastAlert = Null
    /\ ToolsInit

NextOverlay ==
    \/ \E i \in DOMAIN textFetches :
          \E resp \in PlainResponses({ TextResults(textFetches[i].query,
                                           textFetches[i].engine, n) : n \in {0, MaxResults} }) :
             TextFetchSettles(i, resp)
    \/ \E url \in VisibleUrls : fetchPageContent(url)
    \/ \E i \in DOMAIN contentFetches :
          \E resp \in ContentResponses(contentFetches[i].url) : ContentFetchSettles(i, resp)
    \/ closeContentView
    \/ \E c \in Slots : \E resp \in SummaryResponses(chains[c].query) : SummarySettles(c, resp)
    \/ \E c \in Slots : RetryTimerFires(c)

SpecOverlay == InitOverlay /\ [][NextOverlay]_vars

-----------------------------------------------------------------------------
(* SearchInterface of components/search-interface.tsx, which keeps no
   submitted query, with the SearchResults of components/search-results.tsx *)

\* The texts of at most n characters the search box can hold.
RECURSIVE Texts(_)
Texts(n) ==
    IF n = 0 THEN {""}
    ELSE Texts(n - 1) \cup { t \o ch : t \in Texts(n - 1), ch \in {"a", " "} }

PageDrafts == Texts(MaxDraftLen)

Features ==
    {"search", "ai-chat", "llm-notebook", "code-search", "academic-search",
     "document-chat", "knowledge-graph", "web-monitor"}

\* The useEffect of the mock SearchResults on [query, feature].
MockResults(query, feature) ==
    << [id |-> "1", title |-> query \o " - Official Documentation", about |-> query],
       [id |-> "2", title |-> "Understanding " \o query \o " - A Deep Dive", about |-> feature],
       [id |-> "3", title |-> query \o " Implementation Strategies", about |-> query],
       [id |-> "4", title |-> "The Future of " \o query \o " Technology", about |-> query],
       [id |-> "5", title |-> query \o " vs. Alternative Approaches", about |-> query] >>

\* <SearchResults query={searchQuery} feature={activeFeature} /> rendered
\* when showResults: the view follows the props of every render.
MockRendered(p) ==
    IF p.showResults
    THEN [mounted |-> TRUE, query |-> p.searchQuery, feature |-> p.activeFeature,
          results |-> MockResults(p.searchQuery, p.activeFeature)]
    ELSE MockUnmounted

\* SearchBar onChange: setSearchQuery(e.target.value)
pageSetSearchQuery(text) ==
    /\ text # page.searchQuery
    /\ LET p == [page EXCEPT !.searchQuery = text]
       IN  page' = [p EXCEPT !.view = MockRendered(p)]
    /\ UNCHANGED <<searchVars, review, interp>>

\* FeatureToggle onClick: setActiveFeature(feature.id)
pageSetActiveFeature(f) ==
    /\ f # page.activeFeature
    /\ LET p == [page EXCEPT !.activeFeature = f]
       IN  page' = [p EXCEPT !.view = MockRendered(p)]
    /\ UNCHANGED <<searchVars, review, interp>>

\* SearchBar onSubmit: handleSearch of components/search-interface.tsx
pageHandleSearch ==
    /\ IF Trim(page.searchQuery) # ""
       THEN LET p == [page EXCEPT !.showResults = TRUE]
            IN  page' = [p EXCEPT !.view = MockRendered(p)]
       ELSE page' = page
    /\ UNCHANGED <<searchVars, review, interp>>

NextPage ==
    \/ \E text \in PageDrafts : pageSetSearchQuery(text)
    \/ \E f \in Features : pageSetActiveFeature(f)
    \/ pageHandleSearch

SpecPage == Init /\ [][NextPage]_vars

-----------------------------------------------------------------------------
(* ReviewInterface, CodeBoxWithVisualization and CodeBox *)

\* The texts the editor of CodeBox can hold.
EditorTexts == Texts(MaxDraftLen)

\* The options of the language select of CodeBox.
BoxLanguages ==
    {"javascript", "typescript", "jsx", "tsx", "html", "css", "json", "vue", "sass",
     "cpp", "rust", "java", "python", "php", "sql", "xml", "markdown", "wasm", "lezer"}

\* handleCodeChange of ReviewInterface
reviewHandleCodeChange(r, newCode, newLanguage) ==
    [r EXCEPT !.code = newCode, !.language = newLanguage]

\* handleCodeChange of CodeBoxWithVisualization
wrapperHandleCodeChange(r, value) ==
    reviewHandleCodeChange([r EXCEPT !.wrapper.code = value], value,
                           r.wrapper.selectedLanguage)

\* CodeMirror onChange of CodeBox: handleCodeChange
boxHandleCodeChange(value) ==
    /\ review.box.mounted
    /\ value # review.box.code
    /\ LET r == [review EXCEPT !.box.code = value]
       IN  review' = IF review.box.onCodeChange THEN wrapperHandleCodeChange(r, value)
                     ELSE r
    /\ UNCHANGED <<searchVars, page, interp>>

\* The language select of CodeBox: handleLanguageChange.  (The select of
\* CodeBoxWithVisualization has no option, so it raises no change event.)
boxHandleLanguageChange(newLanguage) ==
    /\ review.box.mounted
    /\ newLanguage # review.box.selectedLanguage
    /\ LET r == [review EXCEPT !.box.selectedLanguage = newLanguage]
       IN  review' = IF review.box.onCodeChange
                     THEN reviewHandleCodeChange(r, r.box.code, newLanguage)
                     ELSE r
    /\ UNCHANGED <<searchVars, page, interp>>

\* The Reset button of CodeBox: resetCode
boxResetCode ==
    /\ review.box.mounted
    /\ review' = [review EXCEPT !.box.code = review.box.initialCode]
    /\ UNCHANGED <<searchVars, page, interp>>

\* FeatureToggle onClick of ReviewInterface
reviewSetActiveFeature(f) ==
    /\ f # review.activeFeature
    /\ review' = [review EXCEPT !.activeFeature = f]
    /\ UNCHANGED <<searchVars, page, interp>>

\* disabled={!code.trim()} of the Visualize Code button
VisualizeEnabled == review.wrapper.mounted /\ Trim(review.wrapper.code) # ""

\* A click on an enabled Visualize Code button: handleVisualizeClick; the
\* next render shows Visualisation in place of CodeBoxWithVisualization.
handleVisualizeClick ==
    /\ VisualizeEnabled
    /\ review' = [review EXCEPT !.showVisualization = TRUE,
                                !.wrapper.mounted = FALSE, !.box.mounted = FALSE]
    /\ UNCHANGED <<searchVars, page, interp>>

\* The steps the user can take in ReviewInterface.  No step enables the
\* Visualize Code button, so handleVisualizeClick is not among them.
NextReview ==
    \/ \E value \in EditorTexts : boxHandleCodeChange(value)
    \/ \E l \in BoxLanguages : boxHandleLanguageChange(l)
    \/ boxResetCode
    \/ \E f \in Features : reviewSetActiveFeature(f)

SpecReview == Init /\ [][NextReview]_vars

-----------------------------------------------------------------------------
(* Interpreter *)

\* The options of the language select of Interpreter.
InterpLanguages ==
    {"javascript", "typescript", "python", "html", "css", "json", "jsx", "tsx"}

JsFamily == {"javascript", "typescript", "jsx", "tsx"}

\* Codes the user may have in the editor.
Programs ==
    {"", "1", "console.log(1)", "throw new Error('x')", "(",
     "await fetch('/')", "await new Promise(() => {})"}

\* What the evaluation of the wrapped code does: "syntax" (eval throws),
\* "throws" (the code throws, caught by the wrapper), "silent" or "logs"
\* (it completes within the call), "later" (it awaits a promise
\* that settles after other events), "never" (it awaits a promise that
\* never settles).
Behaviour(code) ==
    CASE code = "(" -> "syntax"
      [] code = "throw new Error('x')" -> "throws"
      [] code = "console.log(1)" -> "logs"
      [] code = "await fetch('/')" -> "later"
      [] code = "await new Promise(() => {})" -> "never"
      [] OTHER -> "silent"

\* result of the JavaScript branch once the evaluation has settled.
JsResult(code) ==
    CASE Behaviour(code) = "syntax" -> "Error: Unexpected token '}'\n"
      [] Behaviour(code) = "throws" -> "Error: x\n"
      [] Behaviour(code) = "logs" -> "1"
      [] OTHER -> "Code executed successfully with no output."

\* result of the branches that evaluate nothing.  The check mark glyph of
\* the JSON branch is written out in words.
StaticResult(language, code) ==
    CASE language = "python" ->
            "Python execution requires a backend service.\n"
                \o "To integrate with a Python interpreter, you would need to:\n"
                \o "1. Set up a Python execution API endpoint\n"
                \o "2. Send the code to that endpoint\n"
                \o "3. Display the results returned from the server"
      [] language = "html" ->
            "HTML Preview:\n\n" \o "To render HTML, you would need to:\n"
                \o "1. Create an iframe or shadow DOM\n"
                \o "2. Inject the HTML content\n"
                \o "3. Display the rendered result"
      [] language = "css" ->
            "CSS Preview:\n\n" \o "To preview CSS, you would need to:\n"
                \o "1. Create a preview container with sample HTML\n"
                \o "2. Apply the CSS styles\n"
                \o "3. Display the styled result"
      [] language = "json" ->
            IF code = "1" THEN "Valid JSON (check mark)\n\n" \o "1"
            ELSE IF code = "" THEN "Invalid JSON: Unexpected end of JSON input"
            ELSE "Invalid JSON: Unexpected token"
      [] OTHER -> ""

\* if (!history.includes(code)) { setHistory(...); setHistoryIndex(history.length) }
WithHistory(i) ==
    IF \E k \in DOMAIN i.history : i.history[k] = i.code THEN i
    ELSE [i EXCEPT !.history = Append(@, i.code), !.historyIndex = Len(i.history)]

\* The rest of executeCode once the evaluation has settled: the result,
\* console.log restored, setOutput, and the finally block.
EvalSettled(i) ==
    [i EXCEPT !.consoleLog = i.originalConsoleLog,
              !.output = JsResult(i.runCode),
              !.isExecuting = FALSE,
              !.phase = "idle"]

\* A click on the Run button (disabled while isExecuting): executeCode up
\* to the point where it waits for an event, or to its end.
executeCode ==
    /\ ~interp.isExecuting
    /\ Len(WithHistory(interp).history) <= MaxHistory
    /\ LET started == [WithHistory(interp) EXCEPT !.isExecuting = TRUE, !.output = ""]
           awaiting == [started EXCEPT !.phase = "awaiting", !.runCode = interp.code,
                                       !.originalConsoleLog = interp.consoleLog,
                                       !.consoleLog = "capture"]
       IN  interp' =
             IF interp.selectedLanguage \in JsFamily
             THEN IF Behaviour(interp.code) \in {"later", "never"} THEN awaiting
                  ELSE EvalSettled(awaiting)
             ELSE [started EXCEPT !.output = StaticResult(interp.selectedLanguage, interp.code),
                                  !.isExecuting = FALSE]
    /\ UNCHANGED <<searchVars, page, review>>

\* The promise the run awaits settles.
EvalSettles ==
    /\ interp.phase = "awaiting"
    /\ Behaviour(interp.runCode) # "never"
    /\ interp' = EvalSettled(interp)
    /\ UNCHANGED <<searchVars, page, review>>

\* CodeMirror onChange of Interpreter: handleCodeChange
interpHandleCodeChange(value) ==
    /\ value # interp.code
    /\ interp' = [interp EXCEPT !.code = value]
    /\ UNCHANGED <<searchVars, page, review>>

\* The language select of Interpreter: handleLanguageChange
interpHandleLanguageChange(l) ==
    /\ l # interp.selectedLanguage
    /\ interp' = [interp EXCEPT !.selectedLanguage = l]
    /\ UNCHANGED <<searchVars, page, review>>

\* The Reset button of Interpreter: resetCode (initialCode = "")
interpResetCode ==
    /\ interp' = [interp EXCEPT !.code = "", !.output = ""]
    /\ UNCHANGED <<searchVars, page, review>>

NextInterp ==
    \/ \E value \in Programs : interpHandleCodeChange(value)
    \/ \E l \in InterpLanguages : interpHandleLanguageChange(l)
    \/ interpResetCode
    \/ executeCode
    \/ EvalSettles

SpecInterp == Init /\ [][NextInterp]_vars

-----------------------------------------------------------------------------
(* Claims *)

\* A list belongs to (q, e) when it is a list the text backend returns for it.
TextListOf(list, q, e) == \E n \in 0..MaxResults : list = TextResults(q, e, n)

ImageListOf(list, q, e) == \E n \in 0..MaxResults : list = ImageResults(q, e, n)

\* C1: in the text view, once every text fetch has settled, the result
\* list on screen is the one answered for the current query and engine,
\* whatever the order in which the answers arrived.
C1_SettledResultsAreCurrent ==
    (si.showResults /\ textFetches = <<>>)
        => TextListOf(sr.results, sr.query, sr.selectedEngine)

\* The summaries the completion API can produce for query q.
SummariesOf(q) == { renderMarkdown(Trim(t)) : t \in CompletionTexts(q) }

ChainsSettled == \A c \in Slots : chains[c].phase \in {"idle", "done"}

\* C2: once every summarize chain of a mounted AiSummary has settled, a
\* summary rendered by the panel (loading = false, error = null) is a
\* summary of the current query, whatever the order in which the chains
\* settled.
C2_SettledSummaryIsCurrent ==
    (ai.mounted /\ ChainsSettled /\ ~ai.loading /\ ai.error = Null /\ ai.summary # "")
        => ai.summary \in SummariesOf(ai.query)

\* C3: when the overlay shows the page of the latest fetchPageContent call
\* and an earlier call for another URL is the last to settle, the overlay
\* still shows the page of the latest call.
C3_LatestContentShown ==
    [][ (/\ Len(contentFetches) = 1
         /\ contentFetches' = <<>>
         /\ contentFetches[1].supersededBy # Null
         /\ sr.contentView.url = contentFetches[1].supersededBy)
            => sr'.contentView = sr.contentView ]_vars

\* The failure classes the retry policy names.
NamedRetryable(message) ==
    \E word \in {"rate limit", "authentication", "invalid"} : Includes(message, word)

\* Chain c takes the answer to its request in this step, and the answer is
\* a failure.
FailsNow(c) ==
    /\ chains[c].phase = "request"
    /\ chains'[c].phase \in {"timer", "done"}
    /\ chains'[c].message # Null

\* C4: a chain whose attempts all fail with a retryable message makes
\* exactly Len(API_KEYS) requests, the k-th with the k-th key, then ends
\* with the pool-exhausted error and loading = false, and makes no further
\* request.
C4_ExhaustsPoolThenStops ==
    [][ \A c \in Slots :
          /\ (FailsNow(c) /\ NamedRetryable(chains'[c].message))
                => IF Len(chains[c].keys) < Len(API_KEYS)
                   THEN chains'[c].phase = "timer"
                   ELSE /\ chains'[c].phase = "done"
                        /\ chains'[c].keys = API_KEYS
                        /\ chains'[c].error = ExhaustedMessage
                        /\ chains[c].live
                              => /\ ai'.error = ExhaustedMessage
                                 /\ ~ai'.loading
          /\ chains[c].phase = "done"
                => \/ chains'[c].keys = chains[c].keys
                   \/ chains'[c].phase = "request" /\ chains'[c].retry = 0 ]_vars

C4_Witness ==
    \E c \in Slots :
        /\ chains[c].phase = "done"
        /\ chains[c].keys = API_KEYS
        /\ NamedRetryable(chains[c].message)
        /\ ai.error = ExhaustedMessage
        /\ ~ai.loading

\* C5: a failed attempt k is followed by a retry exactly when its message
\* contains "rate limit", "authentication" or "invalid" and k + 1 is less
\* than the pool size; a failure of another class ends the chain after
\* k + 1 requests with its own message as the error.
C5_RetryIffNamedAndKeyLeft ==
    [][ \A c \in Slots :
          FailsNow(c)
            => LET m == chains'[c].message
                   k == chains[c].retry
               IN  /\ chains'[c].phase = "timer"
                        <=> (NamedRetryable(m) /\ k + 1 < Len(API_KEYS))
                   /\ ~NamedRetryable(m)
                        => /\ chains'[c].phase = "done"
                           /\ Len(chains'[c].keys) = k + 1
                           /\ chains'[c].error = m
                           /\ chains[c].live => (ai'.error = m /\ ~ai'.loading) ]_vars

C5_Witness ==
    \E c \in Slots :
        /\ chains[c].phase = "done"
        /\ chains[c].retry = 2
        /\ chains[c].message = "Rate limit reached"
        /\ Len(chains[c].keys) = 3
        /\ ai.error = "Rate limit reached"

\* C6: when a chain of the mounted AiSummary succeeds at attempt k, the
\* panel is ready (loading = false, error = null, summary = the rendered
\* completion) and currentApiKeyIndex = k.
C6_RecordedIndexIsAttempt ==
    [][ \A c \in Slots :
          (/\ chains[c].phase = "request"
           /\ chains'[c].phase = "done"
           /\ chains'[c].message = Null
           /\ chains[c].live)
            => /\ ~ai'.loading
               /\ ai'.error = Null
               /\ ai'.summary = chains'[c].summary
               /\ ai'.currentApiKeyIndex = chains[c].retry ]_vars

\* C7: in every chain the attempt index is the number of retries made: it
\* stays below the pool size, request k + 1 uses key k + 1 of the pool, so
\* no chain makes more than pool-size requests or uses a key twice.
C7_AttemptIndexInPool ==
    \A c \in Slots :
        chains[c].phase # "idle"
            => /\ chains[c].retry \in 0..(Len(API_KEYS) - 1)
               /\ Len(chains[c].keys) = chains[c].retry + 1
               /\ Len(chains[c].keys) <= Len(API_KEYS)
               /\ \A i \in DOMAIN chains[c].keys : chains[c].keys[i] = API_KEYS[i]
               /\ \A i, j \in DOMAIN chains[c].keys :
                     i # j => chains[c].keys[i] # chains[c].keys[j]

C7_Witness ==
    \E c \in Slots :
        /\ chains[c].phase = "request"
        /\ chains[c].retry = Len(API_KEYS) - 1
        /\ Len(chains[c].keys) = Len(API_KEYS)

\* A result fetch has ended in error and nothing is in flight.
EndedInError ==
    /\ si.showResults
    /\ textFetches = <<>> /\ imageFetches = <<>>
    /\ IF sr.viewMode = "text" THEN ~sr.loading /\ sr.error # Null
       ELSE ~img.loading /\ img.error # Null

IssuesFetch == textFetches' # textFetches \/ imageFetches' # imageFetches

\* C8: after a result fetch has ended in error, submitting any non-blank
\* text (the same query included) issues a fetch, and so does switching to
\* the other mode.
C8_UserActionRetries ==
    EndedInError
        => /\ Trim(si.searchQuery) # "" => ENABLED (handleSearch /\ IssuesFetch)
           /\ \A mode \in ViewModes \ {sr.viewMode} :
                 ENABLED (toggleViewMode(mode) /\ IssuesFetch)

\* Every fetch has settled and the view of the current mode is not loading.
Displaying ==
    /\ si.showResults
    /\ textFetches = <<>> /\ imageFetches = <<>>
    /\ IF sr.viewMode = "text" THEN ~sr.loading ELSE img.mounted /\ ~img.loading

\* C9: from Displaying, a step that changes the mode or an engine selection
\* sets loading of the view of the new mode and issues exactly one request,
\* for the query and the engine just selected.
C9_ChangeRefetches ==
    [][ (/\ Displaying
         /\ \/ sr'.viewMode # sr.viewMode
            \/ sr'.selectedEngine # sr.selectedEngine
            \/ img.mounted /\ img'.mounted /\ img'.selectedEngine # img.selectedEngine)
            => IF sr'.viewMode = "text"
               THEN /\ sr'.loading
                    /\ textFetches' = Append(textFetches,
                           [query |-> sr'.query, engine |-> sr'.selectedEngine])
               ELSE /\ img'.loading
                    /\ Len(imageFetches') = Len(imageFetches) + 1
                    /\ LET f == imageFetches'[Len(imageFetches')]
                       IN  /\ f.query = sr'.query
                           /\ f.live
                           /\ f.engine = IF sr'.selectedEngine # sr.selectedEngine
                                         THEN sr'.selectedEngine
                                         ELSE img'.selectedEngine ]_vars

\* C10: while the view of the current mode is loading, the list it holds
\* is a list for its current query and engine: the list of a previous
\* triple has been discarded.
C10_ListBelongsToTriple ==
    si.showResults
        => IF sr.viewMode = "text"
           THEN sr.loading => TextListOf(sr.results, sr.query, sr.selectedEngine)
           ELSE img.loading => ImageListOf(img.results, img.query, img.selectedEngine)

\* C11: a step from text mode to image mode keeps the query, puts the
\* (empty) list of a newly mounted ImageSearchResults on screen in place of
\* the text results, and issues exactly one image request, for the query
\* and the engine selected, and no text request.
C11_ModeSwitchIssuesOneImageFetch ==
    [][ (si.showResults /\ sr.viewMode = "text" /\ sr'.viewMode = "images")
            => /\ sr'.query = sr.query
               /\ img'.mounted
               /\ img'.results = <<>>
               /\ img'.loading
               /\ imageFetches' = Append(Detached(imageFetches),
                      [query |-> sr.query, engine |-> sr.selectedEngine, live |-> TRUE])
               /\ textFetches' = textFetches ]_vars

C11_Witness ==
    /\ sr.viewMode = "images"
    /\ sr.results = TextResults(sr.query, "bing", MaxResults)
    /\ img.mounted /\ img.loading /\ img.results = <<>>
    /\ imageFetches = <<[query |-> sr.query, engine |-> "bing", live |-> TRUE]>>

\* C12: a step out of image mode keeps every image request in flight, and
\* a step in which a request of an unmounted ImageSearchResults is answered
\* changes nothing but the set of requests in flight.
C12_StaleImageAnswerDiscarded ==
    [][ /\ (sr.viewMode = "images" /\ sr'.viewMode = "text")
            => /\ Len(imageFetches') = Len(imageFetches)
               /\ \A i \in DOMAIN imageFetches :
                     /\ imageFetches'[i].query = imageFetches[i].query
                     /\ imageFetches'[i].engine = imageFetches[i].engine
                     /\ ~imageFetches'[i].live
        /\ \A i \in DOMAIN imageFetches :
              (~imageFetches[i].live /\ imageFetches' = RemoveAt(imageFetches, i))
                 => /\ img' = img
                    /\ sr' = sr
                    /\ si' = si ]_vars

C12_Witness ==
    /\ sr.viewMode = "text"
    /\ ~img.mounted
    /\ sr.results # <<>> /\ ~sr.loading
    /\ \E i \in DOMAIN imageFetches : ~imageFetches[i].live

\* C13: a step that issues a result fetch sets loading of its view, a step
\* in which a fetch of a mounted view is answered clears it whatever the
\* answer (success, rejected request, non-2xx status, undecodable body,
\* payload without results), and a view is loading only while a fetch of
\* its own is in flight.
C13_LoadingFollowsFetch ==
    [][ /\ Len(textFetches') > Len(textFetches) => sr'.loading
        /\ Len(imageFetches') > Len(imageFetches) => img'.loading
        /\ \A i \in DOMAIN textFetches :
              \A resp \in TextResponses(textFetches[i].query, textFetches[i].engine) :
                 TextFetchSettles(i, resp) => ~sr'.loading
        /\ \A i \in DOMAIN imageFetches :
              \A resp \in ImageResponses(imageFetches[i].query, imageFetches[i].engine) :
                 (ImageFetchSettles(i, resp) /\ imageFetches[i].live) => ~img'.loading
        /\ sr'.loading => textFetches' # <<>>
        /\ img'.loading => \E i \in DOMAIN imageFetches' : imageFetches'[i].live ]_vars

\* A text fetch and an image fetch have both ended in error and both views
\* have stopped loading.
C13_Witness ==
    /\ sr.viewMode = "images"
    /\ textFetches = <<>> /\ imageFetches = <<>>
    /\ ~sr.loading /\ sr.error = "Failed to fetch"
    /\ img.mounted /\ ~img.loading /\ img.error = "Unexpected data format from API"

\* The answers the failure contract names: a non-2xx status, a body that
\* does not decode, a decoded payload without a results array.
NamedFailure(resp) ==
    \/ resp.kind \in {"status", "badjson"}
    \/ resp.kind = "json" /\ ~resp.data.hasResults

\* The message a named failure must show: the status, or the message of
\* the exception.
ShowsFailure(error, resp) ==
    /\ error \notin {Null, ""}
    /\ resp.kind = "status" => Includes(error, ToString(resp.status))
    /\ resp.kind = "badjson" => error = resp.message

\* C14: a step in which a result fetch of a mounted view is answered by a
\* non-2xx status, an undecodable body or a payload without a results
\* array leaves that view with results = [] and a non-empty error that
\* carries the status or the message of the exception.
C14_FailureEndsInError ==
    [][ /\ \A i \in DOMAIN textFetches :
              \A resp \in TextResponses(textFetches[i].query, textFetches[i].engine) :
                 (NamedFailure(resp) /\ TextFetchSettles(i, resp))
                    => (sr'.results = <<>> /\ ShowsFailure(sr'.error, resp))
        /\ \A i \in DOMAIN imageFetches :
              \A resp \in ImageResponses(imageFetches[i].query, imageFetches[i].engine) :
                 (NamedFailure(resp) /\ imageFetches[i].live /\ ImageFetchSettles(i, resp))
                    => (img'.results = <<>> /\ ShowsFailure(img'.error, resp)) ]_vars

C14_Witness ==
    /\ textFetches = <<>> /\ imageFetches = <<>>
    /\ sr.error = "HTTP error! status: 500" /\ sr.results = <<>>
    /\ img.mounted
    /\ img.error = "Unexpected token < in JSON at position 0" /\ img.results = <<>>

\* A 2xx answer whose payload has results = [] and no error string.
EmptySuccess(resp) ==
    /\ resp.kind = "json"
    /\ resp.data.hasResults
    /\ resp.data.results = <<>>
    /\ resp.data.error = Null

\* C15: a step in which a text fetch is answered by a success with
\* results = [] leaves the view in the "no results" state: loading = false,
\* error = null and an empty list, whatever the view held before.
C15_EmptySuccessIsNoResults ==
    [][ \A i \in DOMAIN textFetches :
          \A resp \in TextResponses(textFetches[i].query, textFetches[i].engine) :
             (EmptySuccess(resp) /\ TextFetchSettles(i, resp))
                => (~sr'.loading /\ sr'.error = Null /\ sr'.results = <<>>) ]_vars

\* C16: a step in which a text fetch is answered by a success leaves
\* totalResults and executionTime equal to the total_results and
\* execution_time of the payload, 0 included.
C16_MetadataAsReported ==
    [][ \A i \in DOMAIN textFetches :
          \A resp \in TextResponses(textFetches[i].query, textFetches[i].engine) :
             (resp.kind = "json" /\ resp.data.hasResults /\ TextFetchSettles(i, resp))
                => /\ sr'.totalResults = resp.data.total_results
                   /\ sr'.executionTime = resp.data.execution_time ]_vars

\* C17: while the draft is empty or blank a submit changes nothing (no
\* controller state, no request), and an AiSummary mounted with an empty
\* query is not loading, renders nothing and has no chain: no chain ever
\* runs for the empty query.
C17_BlankQueryIsNoOp ==
    /\ Trim(si.searchQuery) = "" => ~ENABLED (handleSearch /\ vars' # vars)
    /\ (ai.mounted /\ ai.query = "")
          => /\ ~AiSummaryRenders
             /\ ~ai.loading
             /\ \A c \in Slots : chains[c].live => chains[c].phase \in {"idle", "done"}
    /\ \A c \in Slots : chains[c].phase # "idle" => chains[c].query # ""

C17_Witness ==
    /\ si.searchQuery = " " /\ si.submittedQuery = "b" /\ si.showResults
    /\ ai.mounted /\ ai.query = ""
    /\ \E c \in Slots : chains[c].phase = "done"

\* C18: no failure of a fetch is reported through window.alert: a step in
\* which a page-content request is answered leaves the alert channel
\* untouched, its failure being kept in the view state of the panel.
C18_FailureStaysInPanel ==
    [][ contentFetches' # contentFetches => lastAlert' = lastAlert ]_vars

\* C19: a step of the summarize chain (an answer of the completion API
\* with its completion callback, or a retry) leaves the state of
\* SearchResults as it is, and a step in which the text fetch is answered
\* leaves the state of AiSummary and its chains as they are.
C19_DisjointWrites ==
    [][ /\ chains' # chains => sr' = sr
        /\ textFetches' # textFetches => (ai' = ai /\ chains' = chains) ]_vars

\* t is text s without its leading and trailing white space, and is not
\* empty.
IsTrimmedFormOf(t, s) ==
    /\ t # ""
    /\ ~IsSpace(SubSeq(t, 1, 1))
    /\ ~IsSpace(SubSeq(t, Len(t), Len(t)))
    /\ \E i \in 1..Len(s) :
          /\ SubSeq(s, i, i + Len(t) - 1) = t
          /\ \A k \in (1..(i - 1)) \cup ((i + Len(t))..Len(s)) : IsSpace(SubSeq(s, k, k))

\* C20: after every step, when results are shown the query passed to
\* SearchResults is the submitted query, non-empty and trimmed; the
\* submitted query changes only to the trimmed, non-empty draft (a submit),
\* and a step that edits the draft leaves it as it is.
C20_SubmittedQueryIsTrimmed ==
    [][ /\ si'.showResults
              => /\ IsTrimmedFormOf(si'.submittedQuery, si'.submittedQuery)
                 /\ sr'.query = si'.submittedQuery
        /\ si'.submittedQuery # si.submittedQuery
              => /\ si'.searchQuery = si.searchQuery
                 /\ IsTrimmedFormOf(si'.submittedQuery, si.searchQuery)
        /\ si'.searchQuery # si.searchQuery
              => (si'.submittedQuery = si.submittedQuery /\ sr'.query = sr.query) ]_vars

C20_Witness ==
    /\ si.showResults
    /\ si.submittedQuery = "b"
    /\ si.searchQuery = " "
    /\ sr.query = "b"

\* C21: in the SearchInterface of components/search-interface.tsx, once
\* results are shown the query of the results view is not empty, and a
\* step that edits the text of the search box leaves that query as it is.
C21_ShownQueryStaysSubmitted ==
    [][ /\ page'.showResults => page'.view.query # ""
        /\ (page.showResults /\ page'.searchQuery # page.searchQuery)
              => page'.view.query = page.view.query ]_vars

\* C22: a view is loading whenever a request for its current query and
\* engine is in flight, also after an earlier, overlapping request has
\* been answered.
C22_LoadingWhileCurrentInFlight ==
    /\ (\E i \in DOMAIN textFetches :
            /\ textFetches[i].query = sr.query
            /\ textFetches[i].engine = sr.selectedEngine) => sr.loading
    /\ (\E i \in DOMAIN imageFetches :
            /\ imageFetches[i].live
            /\ imageFetches[i].query = img.query
            /\ imageFetches[i].engine = img.selectedEngine) => img.loading

\* C23: while a chain of the mounted AiSummary waits for its retry timer,
\* the panel is loading: it does not show the empty box of loading = false,
\* error = null, summary = "".
C23_PendingWhileWaitingToRetry ==
    (ai.mounted /\ \E c \in Slots : chains[c].live /\ chains[c].phase = "timer")
        => ai.loading

\* C24: a chain whose AiSummary has been unmounted or has been given
\* another query makes no further request: when its retry timer is
\* pending, no step adds a request to it.
C24_SupersededChainStops ==
    [][ \A c \in Slots :
          (/\ chains[c].phase = "timer"
           /\ (~chains[c].live \/ chains[c].query # ai.query))
             => chains'[c].keys = chains[c].keys ]_vars

\* C25: in image mode the engine selected in the options bar of
\* SearchResults is the engine ImageSearchResults has selected, and the
\* engine of its latest request.
C25_OneEngineInImageMode ==
    (si.showResults /\ sr.viewMode = "images")
        => /\ img.selectedEngine = sr.selectedEngine
           /\ \A i \in DOMAIN imageFetches :
                 (imageFetches[i].live
                    /\ \A j \in (i + 1)..Len(imageFetches) : ~imageFetches[j].live)
                    => imageFetches[i].engine = sr.selectedEngine

\* C26: a view that is not loading and has an error holds no results.
C26_ErrorMeansNoResults ==
    /\ (~sr.loading /\ sr.error # Null) => sr.results = <<>>
    /\ (img.mounted /\ ~img.loading /\ img.error # Null) => img.results = <<>>

\* C27: once a text fetch has ended in error (error set, results = [],
\* nothing in flight), the count and the search time are those of the
\* emptied list, not those of an earlier successful fetch.
C27_MetadataClearedOnError ==
    (si.showResults /\ textFetches = <<>> /\ ~sr.loading
        /\ sr.error # Null /\ sr.results = <<>>)
        => (sr.totalResults = 0 /\ sr.executionTime = 0)

\* C28: a step in which a page-content request is answered either leaves
\* the overlay on the requested URL or leaves a failure report, and after
\* every step loadingContent is set while a content request is in flight.
C28_ContentFetchHasOutcome ==
    [][ /\ \A i \in DOMAIN contentFetches :
              \A resp \in ContentResponses(contentFetches[i].url) :
                 ContentFetchSettles(i, resp)
                    => \/ sr'.contentView.url = contentFetches[i].url
                       \/ Includes(lastAlert', "Failed to fetch page content")
        /\ contentFetches' # <<>> => sr'.loadingContent ]_vars

\* C29: whenever the editor of ReviewInterface holds non-empty code, the
\* Visualize Code button is enabled and a click on it shows the
\* visualisation with the code and the language of the editor.
C29_VisualizeAfterTyping ==
    (review.box.mounted /\ Trim(review.box.code) # "")
        => /\ VisualizeEnabled
           /\ ENABLED (handleVisualizeClick /\ review'.showVisualization)
           /\ review.code = review.box.code
           /\ review.language = review.box.selectedLanguage

\* C30: while no run is executing console.log is the original function,
\* and a run that is executing can end: the Run button is not left
\* disabled for good.
C30_RunEndsAndRestores ==
    /\ ~interp.isExecuting => interp.consoleLog = "original"
    /\ interp.isExecuting => ENABLED EvalSettles

====
